---- MODULE Spec2Model ----
(***************************************************************************)
(* Model of the Limitless replication bot: the live orchestrator           *)
(* (monitorTargetWallet / poll / processPosition / replicateOpen /         *)
(* replicateClose), its persisted state and the TradeTracker ledger.       *)
(*                                                                         *)
(* JavaScript runs one callback at a time, so an action is the code        *)
(* executed between two awaits.  A pass (one call of poll) sits at a       *)
(* program point pc[p]:                                                    *)
(*   "idle"   no pass in this slot                                         *)
(*   "fetch"  awaiting fetchTargetPositions()                              *)
(*   "next"   about to call processPosition for the head of todo[p]        *)
(*            (after the first: awaiting the delay(500) of the loop)       *)
(*   "oPre"   replicateOpen awaiting the reads before the buy is sent      *)
(*   "oWait"  buy submitted, awaiting buy()/wait(CONFIRMATIONS)            *)
(*   "cPre"   replicateClose awaiting the reads before the sell is sent    *)
(*   "cWait"  sell submitted, awaiting sell()/wait(CONFIRMATIONS)          *)
(*   "abort"  an exception reached the catch of poll                       *)
(* setInterval starts a new pass whether or not the previous one returned. *)
(***************************************************************************)
EXTENDS Integers, Sequences, FiniteSets, TLC

(* ------------------------------ bounds --------------------------------- *)
\* calls of poll in a run (all process lifetimes together)
MaxPolls == 3
\* the same, for the runs that need a restart after two overlapping passes
MaxPollsDeep == 4
\* entries of the ledger beyond which no transaction is sent
MaxTrades == 2
\* restarts of the process
MaxRestarts == 1
\* largest token balance the feed reports in the runs of a single pass
MaxBalance == 2
\* a balance string of the feed is k or 2^53 + k, for k up to MaxOffset
MaxOffset == 3
\* sizing: the target's investment, the bets and the multiplier, which is
\* a number of MultDen-ths (sizes are then counted in MultDen-ths of a USDC)
MaxTarget == 4
MaxBet == 3
MaxMult == 3
MultDen == 2
\* the ledger alone: calls of the TradeTracker in a run and the largest amount
\* of an entry
MaxOps == 3
MaxAmount == 2
\* the simulator's sell: FEE_BPS takes MaxFee + 1 values from 0 to 10000
MaxFee == 4
\* the buy of an open leg: tokens that calcBuyAmount answers, gas that the
\* estimate answers (0: no estimate), fee per gas that the provider suggests,
\* and the budget MAX_GAS_WEI as a number of gas limits
MaxExpected == 60
MaxGasEst == 2
MaxFeePerGas == 2
MaxBudget == 2

Markets == {"m1", "m2"}
\* order of the positions in the feed's answer
FeedOrder == <<"m1", "m2">>
\* poll callbacks that may be in flight at once
Slots == {1, 2}

(* --------------------------- configuration ----------------------------- *)
BET_MULTIPLIER == 1
MIN_BET_USDC == 1
MAX_BET_USDC == 100
COLLATERAL_UNIT == 1000000

Max(a, b) == IF a > b THEN a ELSE b
Min(a, b) == IF a < b THEN a ELSE b

\* replicateOpen: ourInvestmentNumber, then parseUnits(.., decimals)
ourInvestmentNumber == Max(MIN_BET_USDC, Min(MAX_BET_USDC, MIN_BET_USDC * BET_MULTIPLIER))
investment == ourInvestmentNumber * COLLATERAL_UNIT

(* ------------------------------ the feed ------------------------------- *)
\* tokensBalance.yes/no, market.status, whether market.address is set
Pos(y, n, st, addr) == [yes |-> y, no |-> n, status |-> st, hasAddress |-> addr]

\* what the API may report for one market of the target's portfolio
FeedValues ==
    { Pos(0, 0, "FUNDED", TRUE),
      Pos(1, 0, "FUNDED", TRUE),
      Pos(0, 1, "FUNDED", TRUE),
      Pos(1, 0, "RESOLVED", TRUE),
      Pos(1, 0, "FUNDED", FALSE) }

\* the first market of the answer takes every shape, the others only open and close
FeedValuesOf(m) ==
    IF m = FeedOrder[1] THEN FeedValues
    ELSE {Pos(0, 0, "FUNDED", TRUE), Pos(1, 0, "FUNDED", TRUE)}

Snapshots == {s \in [Markets -> FeedValues] : \A m \in Markets : s[m] \in FeedValuesOf(m)}
NoSnapshot == [m \in Markets |-> Pos(0, 0, "FUNDED", TRUE)]

\* the positions array of one answer, in feed order: each position with its market
Positions(s) ==
    [i \in 1..Len(FeedOrder) |-> [slug |-> FeedOrder[i], position |-> s[FeedOrder[i]]]]

(* ------------------------- processPosition helpers --------------------- *)
NullOutcome == -1

\* processPosition: "Determine which outcome target has"
targetOutcome(pos) ==
    IF pos.yes > 0 /\ pos.no = 0 THEN 1
    ELSE IF pos.no > 0 /\ pos.yes = 0 THEN 0
    ELSE IF pos.yes > 0 /\ pos.no > 0
         THEN (IF pos.yes > pos.no THEN 1 ELSE 0)
         ELSE NullOutcome

targetBalance(pos) ==
    IF pos.yes > 0 /\ pos.no = 0 THEN pos.yes
    ELSE IF pos.no > 0 /\ pos.yes = 0 THEN pos.no
    ELSE IF pos.yes > 0 /\ pos.no > 0
         THEN (IF pos.yes > pos.no THEN pos.yes ELSE pos.no)
         ELSE 0

\* "Skip resolved/closed markets"
IsSkipped(pos) == pos.status = "RESOLVED"

NoSeen == [outcomeIndex |-> NullOutcome, tokensBalance |-> 0]
NoPosition == [outcomeIndex |-> NullOutcome, amount |-> 0, tradeId |-> 0]
\* an entry of the last-seen map that drops the balance
SeenOfNoBalance(pos) == [outcomeIndex |-> targetOutcome(pos), tokensBalance |-> 0]

\* processPosition: the value of lastSeenPositions.set
SeenOf(pos) == [outcomeIndex |-> targetOutcome(pos), tokensBalance |-> targetBalance(pos)]

(* ------------------------------ the ledger ----------------------------- *)
\* generateTradeId: a fresh identifier
generateTradeId(trs) == Len(trs) + 1

\* recordBuy: push an OPEN BUY entry
recordBuy(trs, slug, outcome, amount) ==
    Append(trs, [id |-> generateTradeId(trs), type |-> "BUY", marketSlug |-> slug,
                 outcome |-> outcome, status |-> "OPEN", relatedBuyTradeId |-> 0,
                 investmentAmount |-> amount, returnAmount |-> 0,
                 actualReturnReceived |-> <<>>,
                 pnlAmount |-> <<>>, realizedPnL |-> <<>>])

\* closeTrade: the first entry with this id becomes CLOSED
closeTrade(trs, tradeId, pnl) ==
    IF \E i \in 1..Len(trs) : trs[i].id = tradeId
    THEN LET i == CHOOSE k \in 1..Len(trs) :
                      trs[k].id = tradeId /\ \A j \in 1..(k-1) : trs[j].id # tradeId
         IN [trs EXCEPT ![i] = [@ EXCEPT !.status = "CLOSED", !.realizedPnL = pnl]]
    ELSE trs

\* findOpenBuy: the first OPEN BUY of this market and outcome, 0 when none
findOpenBuy(trs, slug, outcome) ==
    LET hit(i) == /\ trs[i].type = "BUY" /\ trs[i].marketSlug = slug
                  /\ trs[i].outcome = outcome /\ trs[i].status = "OPEN"
    IN IF \E i \in 1..Len(trs) : hit(i)
       THEN trs[CHOOSE k \in 1..Len(trs) : hit(k) /\ \A j \in 1..(k-1) : ~hit(j)].id
       ELSE 0

\* An optional decimal string of an entry (pnlAmount, realizedPnL,
\* actualReturnReceived) is <<>> when null, <<n>> for the integer n and <<n, f>>
\* for n followed by the fraction f (a string that BigInt() does not parse).

\* recordSell: the SELL entry that is pushed; both callers pass the same amount
\* as returnAmount and actualReturnReceived
sellTrade(trs, slug, outcome, related, invested, ret, pnl) ==
    [id |-> generateTradeId(trs), type |-> "SELL", marketSlug |-> slug,
     outcome |-> outcome, status |-> "CLOSED", relatedBuyTradeId |-> related,
     investmentAmount |-> invested, returnAmount |-> ret,
     actualReturnReceived |-> <<ret>>,
     pnlAmount |-> pnl, realizedPnL |-> <<>>]

\* recordSell up to its call of closeTrade: the BUY to close, 0 when none
relatedBuy(trs, slug, outcome, related) ==
    IF related # 0 THEN related ELSE findOpenBuy(trs, slug, outcome)

\* recordSell up to the return of closeTrade: the SELL is pushed and the BUY
\* closed, the SELL does not name the BUY that findOpenBuy found yet
recordSellClose(trs, slug, outcome, related, invested, ret, pnl) ==
    LET pushed == Append(trs, sellTrade(trs, slug, outcome, related, invested, ret, pnl))
        buy == relatedBuy(pushed, slug, outcome, related)
    IN IF buy # 0 THEN closeTrade(pushed, buy, pnl) ELSE pushed

\* recordSell: push the SELL, close the related BUY, then name the BUY found
recordSell(trs, slug, outcome, related, invested, ret, pnl) ==
    LET closed == recordSellClose(trs, slug, outcome, related, invested, ret, pnl)
        found == IF related = 0 THEN findOpenBuy(trs, slug, outcome) ELSE 0
    IN IF found # 0
       THEN [closed EXCEPT ![Len(closed)].relatedBuyTradeId = found]
       ELSE closed

\* getOpenPositions
getOpenPositions(trs) ==
    SelectSeq(trs, LAMBDA t : t.type = "BUY" /\ t.status = "OPEN")

\* a return that adds the margin
sellReturnWithMargin(investedAmount) == investedAmount + (investedAmount \div 100)

\* replicateClose: returnAmount = investedAmount - (investedAmount / 100n)
sellReturnAmount(investedAmount) == investedAmount - (investedAmount \div 100)

(* ------------------------------- state --------------------------------- *)
VARIABLES
    lastSeenPositions,  \* marketSlug -> {outcomeIndex, tokensBalance} | NoSeen
    ourPositions,       \* marketSlug -> {outcomeIndex, amount, tradeId} | NoPosition
    isInitialSync,
    trades,             \* tradeTracker.trades, as saved in data/trades.json
    stateFile,          \* STATE_FILE
    timerOn,            \* setInterval(poll) is armed (the first poll returned)
    pc, todo,           \* per pass: program point, positions the loop has not left
    ev,                 \* per pass: the event of the position being processed
    ourPos,             \* per pass: ourPos captured by replicateClose
    closeRes, openRes,  \* per pass: how the legs of the current position ended
    polls, restarts,    \* counters bounding the run
    feed,               \* the target's snapshot as last served by the API
    fresh,              \* per pass: its answer is still the target's snapshot
    quiet,              \* the target's snapshot is that of the last completed pass,
                        \* and was so at the last restart
    failedLeg,          \* market -> the leg that last failed on the current feed:
                        \* "open"/"close", and "openDue"/"closeDue" once every pass
                        \* that ran at the failure has returned
    calc                \* arguments and results of the function a run evaluates

vars == <<lastSeenPositions, ourPositions, isInitialSync, trades, stateFile, timerOn,
          pc, todo, ev, ourPos, closeRes, openRes, polls, restarts, feed, fresh, quiet,
          failedLeg, calc>>

\* no function is being evaluated
NoCalc == [fn |-> "none"]

NoFile == [exists |-> FALSE,
           lastSeenPositions |-> [m \in Markets |-> NoSeen],
           ourPositions |-> [m \in Markets |-> NoPosition]]

\* the locals of a pass that is not running
Idle(p) ==
    /\ pc' = [pc EXCEPT ![p] = "idle"]
    /\ todo' = [todo EXCEPT ![p] = <<>>]
    /\ ev' = [ev EXCEPT ![p] = "NONE"]
    /\ ourPos' = [ourPos EXCEPT ![p] = NoPosition]
    /\ closeRes' = [closeRes EXCEPT ![p] = "none"]
    /\ openRes' = [openRes EXCEPT ![p] = "none"]

\* main(): tracker loaded, loadState(), then the first poll is awaited
Init ==
    /\ lastSeenPositions = [m \in Markets |-> NoSeen]
    /\ ourPositions = [m \in Markets |-> NoPosition]
    /\ isInitialSync = TRUE
    /\ trades = <<>>
    /\ stateFile = NoFile
    /\ timerOn = FALSE
    /\ pc = [p \in Slots |-> IF p = 1 THEN "fetch" ELSE "idle"]
    /\ todo = [p \in Slots |-> <<>>]
    /\ ev = [p \in Slots |-> "NONE"]
    /\ ourPos = [p \in Slots |-> NoPosition]
    /\ closeRes = [p \in Slots |-> "none"]
    /\ openRes = [p \in Slots |-> "none"]
    /\ polls = 1
    /\ restarts = 0
    /\ feed = NoSnapshot
    /\ fresh = [p \in Slots |-> FALSE]
    /\ quiet = FALSE
    /\ failedLeg = [m \in Markets |-> "none"]
    /\ calc = NoCalc

(* ------------------------- one position of a pass ---------------------- *)
HasNext(p) == todo[p] # <<>>
CurMarket(p) == Head(todo[p]).slug
CurPos(p) == Head(todo[p]).position

\* how a leg can end before its transaction is sent, and after
OpenPreFailures == {"insufficient", "approval", "gas", "throw"}
ClosePreFailures == {"approval", "gas", "throw"}
WaitFailures == {"revert", "timeout"}

\* a leg whose failure escapes to the catch of poll
AfterLegUncaught(res) == IF res = "fail" THEN "abort" ELSE "next"

\* the try/catch of replicateOpen, replicateClose and processPosition: where the
\* pass continues after a leg ended with result res ("abort" is the catch of poll)
AfterLeg(res) == "next"

\* a first pass that replicates what it sees
RecordOnlyNever == FALSE

\* processPosition: "First poll - just record, don't replicate"
RecordOnly == isInitialSync

\* assignment shared by every step of processPosition
Set(p, newpc, ls, op, tr, cres, ores) ==
    /\ pc' = [pc EXCEPT ![p] = newpc]
    /\ todo' = [todo EXCEPT ![p] = IF newpc \in {"next", "abort"} THEN Tail(@) ELSE @]
    /\ lastSeenPositions' = ls
    /\ ourPositions' = op
    /\ trades' = tr
    /\ closeRes' = [closeRes EXCEPT ![p] = cres]
    /\ openRes' = [openRes EXCEPT ![p] = ores]

\* a lastSeenPositions.set that is left out
SeenSetKept(p) == lastSeenPositions

\* processPosition: lastSeenPositions.set(slug, {outcomeIndex, tokensBalance})
SeenSet(p) == [lastSeenPositions EXCEPT ![CurMarket(p)] = SeenOf(CurPos(p))]
SeenDel(p) == [lastSeenPositions EXCEPT ![CurMarket(p)] = NoSeen]

\* replicateOpen returned (or threw into its catch) with result ores;
\* processPosition then does lastSeenPositions.set(slug, ...)
EndOpen(p, op, tr, cres, ores) ==
    IF AfterLeg(ores) = "next"
    THEN Set(p, "next", SeenSet(p), op, tr, cres, ores)
    ELSE Set(p, AfterLeg(ores), lastSeenPositions, op, tr, cres, ores)

\* replicateOpen up to its first await
EnterOpen(p, op, tr, cres) ==
    IF ~CurPos(p).hasAddress
    THEN EndOpen(p, op, tr, cres, "noaddr")
    ELSE Set(p, "oPre", lastSeenPositions, op, tr, cres, "run")

\* replicateClose returned with result cres; event e is CLOSED or SWITCHED
EndClose(p, e, op, tr, cres) ==
    IF AfterLeg(cres) # "next"
    THEN Set(p, AfterLeg(cres), lastSeenPositions, op, tr, cres, "none")
    ELSE IF e = "SWITCHED"
         THEN EnterOpen(p, op, tr, cres)
         ELSE Set(p, "next", SeenDel(p), op, tr, cres, "none")

\* replicateClose up to its first await, closing outcome o
EnterClose(p, e, o) ==
    LET m == CurMarket(p)
        cur == ourPositions[m]
    IN IF cur = NoPosition \/ cur.outcomeIndex # o
       THEN /\ EndClose(p, e, ourPositions, trades, "noop")
            /\ UNCHANGED ourPos
       ELSE IF ~CurPos(p).hasAddress
            THEN /\ EndClose(p, e, [ourPositions EXCEPT ![m] = NoPosition], trades, "noaddr")
                 /\ UNCHANGED ourPos
            ELSE /\ Set(p, "cPre", lastSeenPositions, ourPositions, trades, "run", "none")
                 /\ ourPos' = [ourPos EXCEPT ![p] = cur]

\* processPosition from its call to its first await (or its return)
Process(p) ==
    /\ pc[p] = "next"
    /\ HasNext(p)
    /\ LET pos == CurPos(p)
           o == targetOutcome(pos)
           seen == lastSeenPositions[CurMarket(p)]
       IN IF IsSkipped(pos)
          THEN /\ ev' = [ev EXCEPT ![p] = "SKIPPED"]
               /\ Set(p, "next", lastSeenPositions, ourPositions, trades, "none", "none")
               /\ UNCHANGED ourPos
          ELSE IF o = NullOutcome
          THEN IF seen # NoSeen
               THEN /\ ev' = [ev EXCEPT ![p] = "CLOSED"]
                    /\ EnterClose(p, "CLOSED", seen.outcomeIndex)
               ELSE /\ ev' = [ev EXCEPT ![p] = "NONE"]
                    /\ Set(p, "next", lastSeenPositions, ourPositions, trades, "none", "none")
                    /\ UNCHANGED ourPos
          ELSE IF seen = NoSeen
          THEN /\ ev' = [ev EXCEPT ![p] = "OPENED"]
               /\ UNCHANGED ourPos
               /\ IF RecordOnly
                  THEN Set(p, "next", SeenSet(p), ourPositions, trades, "none", "suppressed")
                  ELSE EnterOpen(p, ourPositions, trades, "none")
          ELSE IF seen.outcomeIndex # o
          THEN /\ ev' = [ev EXCEPT ![p] = "SWITCHED"]
               /\ EnterClose(p, "SWITCHED", seen.outcomeIndex)
          ELSE /\ ev' = [ev EXCEPT ![p] = "SAME"]
               /\ Set(p, "next", SeenSet(p), ourPositions, trades, "none", "none")
               /\ UNCHANGED ourPos
    /\ UNCHANGED <<isInitialSync, stateFile, timerOn, polls, restarts, feed, fresh, quiet,
                   failedLeg, calc>>

Due(kind) == IF kind = "open" THEN "openDue" ELSE IF kind = "close" THEN "closeDue" ELSE kind

\* bookkeeping of the leg that last failed for a market on the current feed
MarkFailed(p, kind) ==
    IF CurPos(p) = feed[CurMarket(p)]
    THEN [failedLeg EXCEPT ![CurMarket(p)] = kind]
    ELSE failedLeg
MarkDone(p, kind) ==
    IF failedLeg[CurMarket(p)] \in {kind, Due(kind)}
    THEN [failedLeg EXCEPT ![CurMarket(p)] = "none"]
    ELSE failedLeg

LegFrame ==
    UNCHANGED <<isInitialSync, stateFile, timerOn, ev, polls, restarts, feed, fresh, quiet,
                calc>>

\* the local ourPos of replicateClose, gone when the leg returns
DropOurPos(p) == ourPos' = [ourPos EXCEPT ![p] = NoPosition]

\* replicateOpen: balanceOf, ensureUsdcApproval, calcBuyAmount, estimateGasFor,
\* txOverrides; then marketContract.buy is sent
OpenPre(p) ==
    /\ pc[p] = "oPre"
    /\ \/ \E r \in OpenPreFailures :
            /\ EndOpen(p, ourPositions, trades, closeRes[p], "fail")
            /\ failedLeg' = MarkFailed(p, "open")
       \/ /\ Len(trades) < MaxTrades
          /\ Set(p, "oWait", lastSeenPositions, ourPositions, trades, closeRes[p], "sent")
          /\ UNCHANGED failedLeg
    /\ UNCHANGED ourPos
    /\ LegFrame

\* replicateOpen: the buy is answered and buyTx.wait(CONFIRMATIONS) returns or throws
OpenWait(p) ==
    /\ pc[p] = "oWait"
    /\ \/ /\ EndOpen(p,
                     [ourPositions EXCEPT ![CurMarket(p)] =
                         [outcomeIndex |-> targetOutcome(CurPos(p)),
                          amount |-> investment,
                          tradeId |-> generateTradeId(trades)]],
                     recordBuy(trades, CurMarket(p), targetOutcome(CurPos(p)), investment),
                     closeRes[p], "ok")
          /\ failedLeg' = MarkDone(p, "open")
       \/ \E r \in WaitFailures :
            /\ EndOpen(p, ourPositions, trades, closeRes[p], "fail")
            /\ failedLeg' = MarkFailed(p, "open")
    /\ UNCHANGED ourPos
    /\ LegFrame

\* replicateClose: positionId, conditionalTokens, balanceOf, ensureErc1155Approval,
\* estimateGasFor, txOverrides; then marketContract.sell is sent
ClosePre(p) ==
    /\ pc[p] = "cPre"
    /\ \/ /\ EndClose(p, ev[p], [ourPositions EXCEPT ![CurMarket(p)] = NoPosition],
                      trades, "notokens")
          /\ DropOurPos(p)
          /\ UNCHANGED failedLeg
       \/ \E r \in ClosePreFailures :
            /\ EndClose(p, ev[p], ourPositions, trades, "fail")
            /\ DropOurPos(p)
            /\ failedLeg' = MarkFailed(p, "close")
       \/ /\ Len(trades) < MaxTrades
          /\ Set(p, "cWait", lastSeenPositions, ourPositions, trades, "sent", openRes[p])
          /\ UNCHANGED <<ourPos, failedLeg>>
    /\ LegFrame

\* replicateClose: the sell is answered and sellTx.wait(CONFIRMATIONS) returns or throws
CloseWait(p) ==
    /\ pc[p] = "cWait"
    /\ \/ LET investedAmount == ourPos[p].amount
              returnAmount == sellReturnAmount(investedAmount)
              pnlAmount == returnAmount - investedAmount
          IN /\ EndClose(p, ev[p],
                         [ourPositions EXCEPT ![CurMarket(p)] = NoPosition],
                         recordSell(trades, CurMarket(p), ourPos[p].outcomeIndex,
                                    ourPos[p].tradeId, investedAmount, returnAmount,
                                    <<pnlAmount>>),
                         "ok")
             /\ failedLeg' = MarkDone(p, "close")
       \/ \E r \in WaitFailures :
            /\ EndClose(p, ev[p], ourPositions, trades, "fail")
            /\ failedLeg' = MarkFailed(p, "close")
    /\ DropOurPos(p)
    /\ LegFrame

(* ------------------------------- a pass -------------------------------- *)
\* saveState()
saveState(ls, op) == [exists |-> TRUE, lastSeenPositions |-> ls, ourPositions |-> op]

\* fetchTargetPositions() answers with the target's positions: the pass enters its loop
FetchDone(p) ==
    /\ pc[p] = "fetch"
    /\ \E s \in Snapshots :
          /\ feed' = s
          /\ fresh' = [q \in Slots |-> q = p \/ (s = feed /\ fresh[q])]
          /\ quiet' = (s = feed /\ quiet)
          /\ todo' = [todo EXCEPT ![p] = Positions(s)]
          /\ failedLeg' = [m \in Markets |->
                              IF s[m] = feed[m] THEN failedLeg[m] ELSE "none"]
    /\ pc' = [pc EXCEPT ![p] = "next"]
    /\ UNCHANGED <<lastSeenPositions, ourPositions, isInitialSync, trades, stateFile,
                   timerOn, ev, ourPos, closeRes, openRes, polls, restarts, calc>>

\* fetchTargetPositions() fails (it answers []) or the target holds nothing:
\* poll returns early.  main() arms the timer when the first poll has returned.
FetchEmpty(p) ==
    /\ pc[p] = "fetch"
    /\ timerOn' = TRUE
    /\ Idle(p)
    /\ UNCHANGED <<lastSeenPositions, ourPositions, isInitialSync, trades, stateFile,
                   polls, restarts, feed, fresh, quiet, failedLeg, calc>>

\* poll returns after its loop (isInitialSync = false; saveState()) or through its
\* catch.  main() arms the timer when the first poll has returned.
PollReturn(p) ==
    /\ \/ pc[p] = "abort"
       \/ pc[p] = "next" /\ ~HasNext(p)
    /\ IF pc[p] = "abort"
       THEN UNCHANGED <<isInitialSync, stateFile, quiet>>
       ELSE /\ isInitialSync' = FALSE
            /\ stateFile' = saveState(lastSeenPositions, ourPositions)
            /\ quiet' = (fresh[p] /\ (restarts = 0 \/ quiet))
    /\ timerOn' = TRUE
    /\ fresh' = [fresh EXCEPT ![p] = FALSE]
    /\ failedLeg' = IF \A q \in Slots \ {p} : pc[q] = "idle"
                    THEN [m \in Markets |-> Due(failedLeg[m])]
                    ELSE failedLeg
    /\ Idle(p)
    /\ UNCHANGED <<lastSeenPositions, ourPositions, trades, polls, restarts, feed, calc>>

\* setInterval(poll, POLL_INTERVAL_MS) fires: a new pass starts, whatever the others do
TimerTick(maxPolls) ==
    /\ timerOn
    /\ polls < maxPolls
    /\ \E p \in Slots :
          /\ pc[p] = "idle"
          /\ \A q \in Slots : pc[q] = "idle" => p <= q
          /\ pc' = [pc EXCEPT ![p] = "fetch"]
    /\ polls' = polls + 1
    /\ UNCHANGED <<lastSeenPositions, ourPositions, isInitialSync, trades, stateFile,
                   timerOn, todo, ev, ourPos, closeRes, openRes, restarts, feed,
                   fresh, quiet, failedLeg, calc>>

\* the process ends and is started again: main() loads the tracker file and the
\* state file, then awaits the first poll.  With sigint the SIGINT handler (installed
\* once the first poll has returned) calls saveState() before the exit.
Restart(sigint, maxPolls) ==
    /\ restarts < MaxRestarts
    /\ polls < maxPolls
    /\ sigint => timerOn
    /\ LET file == IF sigint THEN saveState(lastSeenPositions, ourPositions)
                   ELSE stateFile
       IN /\ stateFile' = file
          /\ lastSeenPositions' = file.lastSeenPositions
          /\ ourPositions' = file.ourPositions
    /\ isInitialSync' = TRUE
    /\ timerOn' = FALSE
    /\ pc' = [p \in Slots |-> IF p = 1 THEN "fetch" ELSE "idle"]
    /\ todo' = [p \in Slots |-> <<>>]
    /\ ev' = [p \in Slots |-> "NONE"]
    /\ ourPos' = [p \in Slots |-> NoPosition]
    /\ closeRes' = [p \in Slots |-> "none"]
    /\ openRes' = [p \in Slots |-> "none"]
    /\ polls' = polls + 1
    /\ restarts' = restarts + 1
    /\ fresh' = [p \in Slots |-> FALSE]
    /\ UNCHANGED <<trades, feed, quiet, failedLeg, calc>>

NextUpTo(maxPolls) ==
    \/ \E p \in Slots : FetchDone(p)
    \/ \E p \in Slots : FetchEmpty(p)
    \/ \E p \in Slots : Process(p)
    \/ \E p \in Slots : OpenPre(p)
    \/ \E p \in Slots : OpenWait(p)
    \/ \E p \in Slots : ClosePre(p)
    \/ \E p \in Slots : CloseWait(p)
    \/ \E p \in Slots : PollReturn(p)
    \/ TimerTick(maxPolls)
    \/ Restart(TRUE, maxPolls)
    \/ Restart(FALSE, maxPolls)

Next == NextUpTo(MaxPolls)
NextDeep == NextUpTo(MaxPollsDeep)

Spec == Init /\ [][Next]_vars
SpecDeep == Init /\ [][NextDeep]_vars

(* ------------------- one pass, from any state of the maps -------------- *)
\* what the API may report for one market, balances up to MaxBalance
WideFeedValues ==
    {Pos(y, n, st, TRUE) : y \in 0..MaxBalance, n \in 0..MaxBalance,
                           st \in {"FUNDED", "RESOLVED"}}
    \cup {Pos(1, 0, "FUNDED", FALSE)}

WideSnapshots ==
    {s \in [Markets -> WideFeedValues] :
        \A m \in Markets : m # FeedOrder[1] => s[m] \in FeedValuesOf(m)}

\* what lastSeenPositions may hold for one market
SeenValues(m) ==
    {NoSeen} \cup
    {[outcomeIndex |-> o, tokensBalance |-> b] :
        o \in (IF m = FeedOrder[1] THEN {0, 1} ELSE {1}),
        b \in (IF m = FeedOrder[1] THEN 1..MaxBalance ELSE {1})}

\* the outcome we hold in each market (NullOutcome: none)
HeldValues(m) == IF m = FeedOrder[1] THEN {NullOutcome, 0, 1} ELSE {NullOutcome, 1}

\* the ledger after the buys of the first i markets of h were confirmed and recorded
RECURSIVE LedgerOf(_, _)
LedgerOf(h, i) ==
    IF i = 0 THEN <<>>
    ELSE LET m == FeedOrder[i]
         IN IF h[m] = NullOutcome THEN LedgerOf(h, i - 1)
            ELSE recordBuy(LedgerOf(h, i - 1), m, h[m], investment)

\* ourPositions after those buys
PositionsOf(h) ==
    [m \in Markets |->
        IF h[m] = NullOutcome THEN NoPosition
        ELSE [outcomeIndex |-> h[m], amount |-> investment,
              tradeId |-> findOpenBuy(LedgerOf(h, Len(FeedOrder)), m, h[m])]]

\* a poll has fetched snapshot s and enters its loop; the maps are as an earlier
\* pass saved them
InitPass ==
    \E s \in WideSnapshots, sync \in BOOLEAN :
    \E ls \in {f \in [Markets -> UNION {SeenValues(m) : m \in Markets}] :
                   \A m \in Markets : f[m] \in SeenValues(m)} :
    \E h \in {f \in [Markets -> {NullOutcome, 0, 1}] :
                  \A m \in Markets : f[m] \in HeldValues(m)} :
        /\ lastSeenPositions = ls
        /\ ourPositions = PositionsOf(h)
        /\ isInitialSync = sync
        /\ trades = LedgerOf(h, Len(FeedOrder))
        /\ stateFile = saveState(ls, PositionsOf(h))
        /\ timerOn = ~sync
        /\ pc = [p \in Slots |-> IF p = 1 THEN "next" ELSE "idle"]
        /\ todo = [p \in Slots |-> IF p = 1 THEN Positions(s) ELSE <<>>]
        /\ ev = [p \in Slots |-> "NONE"]
        /\ ourPos = [p \in Slots |-> NoPosition]
        /\ closeRes = [p \in Slots |-> "none"]
        /\ openRes = [p \in Slots |-> "none"]
        /\ polls = MaxPolls
        /\ restarts = 0
        /\ feed = s
        /\ fresh = [p \in Slots |-> p = 1]
        /\ quiet = FALSE
        /\ failedLeg = [m \in Markets |-> "none"]
        /\ calc = NoCalc

NextPass ==
    \/ Process(1)
    \/ OpenPre(1)
    \/ OpenWait(1)
    \/ ClosePre(1)
    \/ CloseWait(1)
    \/ PollReturn(1)

SpecPass == InitPass /\ [][NextPass]_vars

(* ---------------- the functions evaluated on their own ------------------ *)
orchVars == <<lastSeenPositions, ourPositions, isInitialSync, trades, stateFile, timerOn,
              pc, todo, ev, ourPos, closeRes, openRes, polls, restarts, feed, fresh,
              quiet, failedLeg>>

\* the orchestrator before main() has started a poll
Parked ==
    /\ lastSeenPositions = [m \in Markets |-> NoSeen]
    /\ ourPositions = [m \in Markets |-> NoPosition]
    /\ isInitialSync = TRUE
    /\ trades = <<>>
    /\ stateFile = NoFile
    /\ timerOn = FALSE
    /\ pc = [p \in Slots |-> "idle"]
    /\ todo = [p \in Slots |-> <<>>]
    /\ ev = [p \in Slots |-> "NONE"]
    /\ ourPos = [p \in Slots |-> NoPosition]
    /\ closeRes = [p \in Slots |-> "none"]
    /\ openRes = [p \in Slots |-> "none"]
    /\ polls = 0
    /\ restarts = 0
    /\ feed = NoSnapshot
    /\ fresh = [p \in Slots |-> FALSE]
    /\ quiet = FALSE
    /\ failedLeg = [m \in Markets |-> "none"]

\* a decimal string of tokensBalance: the integer k, or 2^53 + k when big
Balance(big, k) == [big |-> big, k |-> k]
BalanceStrings == {Balance(big, k) : big \in BOOLEAN, k \in 0..MaxOffset}

\* BigInt(x): the integer itself
BigIntOf(x) == x

\* Number(x): the nearest double, ties to the even mantissa.  Below 2^53 every
\* integer is a double; from 2^53 to 2^54 the doubles are the even integers.
NumberOf(x) ==
    IF ~x.big THEN x
    ELSE Balance(TRUE, CASE x.k % 4 = 1 -> x.k - 1
                         [] x.k % 4 = 3 -> x.k + 1
                         [] OTHER -> x.k)

\* a > b and a > 0 on these values
Greater(a, b) == (a.big /\ ~b.big) \/ (a.big = b.big /\ a.k > b.k)
Positive(a) == a.big \/ a.k > 0

\* the if/else chain that both programs apply to (yesBalance, noBalance)
OutcomeOf(yesBalance, noBalance) ==
    IF Positive(yesBalance) /\ ~Positive(noBalance) THEN 1
    ELSE IF Positive(noBalance) /\ ~Positive(yesBalance) THEN 0
    ELSE IF Positive(yesBalance) /\ Positive(noBalance)
         THEN (IF Greater(yesBalance, noBalance) THEN 1 ELSE 0)
         ELSE NullOutcome

\* processPosition: BigInt(tokensBalance.yes || '0'), BigInt(tokensBalance.no || '0')
liveTargetOutcome(yes, no) == OutcomeOf(BigIntOf(yes), BigIntOf(no))

\* runSimulation: Number(tokensBalance.yes || '0'), Number(tokensBalance.no || '0')
simTargetOutcome(yes, no) == OutcomeOf(NumberOf(yes), NumberOf(no))

InitOutcome ==
    /\ Parked
    /\ calc \in {[fn |-> "outcome", yes |-> y, no |-> n, done |-> FALSE,
                   live |-> NullOutcome, sim |-> NullOutcome] :
                      y \in BalanceStrings, n \in BalanceStrings}

\* both programs derive the target's outcome from the same position of the feed
DeriveOutcome ==
    /\ calc.fn = "outcome" /\ ~calc.done
    /\ calc' = [calc EXCEPT !.done = TRUE,
                            !.live = liveTargetOutcome(calc.yes, calc.no),
                            !.sim = simTargetOutcome(calc.yes, calc.no)]
    /\ UNCHANGED orchVars

SpecOutcome == InitOutcome /\ [][DeriveOutcome]_vars

\* a sizing that leaves out the limits
ourInvestmentUnclamped(targetInvestment, minBet, maxBet, mult) == targetInvestment * mult

\* simulateBuy: targetInvestment * BET_MULTIPLIER, then Math.max(MIN, Math.min(MAX, ..))
ourInvestment(targetInvestment, minBet, maxBet, mult) ==
    Max(minBet * MultDen, Min(maxBet * MultDen, targetInvestment * mult))

\* replicateOpen: Math.max(MIN, Math.min(MAX, MIN_BET_USDC * BET_MULTIPLIER))
ourInvestmentNumberFor(minBet, maxBet, mult) ==
    Max(minBet * MultDen, Min(maxBet * MultDen, minBet * mult))

InitSizer ==
    /\ Parked
    /\ calc \in {[fn |-> "size", target |-> t, mult |-> k, minBet |-> mn, maxBet |-> mx,
                   done |-> FALSE, live |-> 0, sim |-> 0] :
                      t \in 0..MaxTarget, k \in 0..MaxMult,
                      mn \in 1..MaxBet, mx \in 1..MaxBet}

\* both programs size the buy that copies a position the target paid `target` for
SizeBuy ==
    /\ calc.fn = "size" /\ ~calc.done
    /\ calc' = [calc EXCEPT
                  !.done = TRUE,
                  !.live = ourInvestmentNumberFor(calc.minBet, calc.maxBet, calc.mult),
                  !.sim = ourInvestment(calc.target, calc.minBet, calc.maxBet, calc.mult)]
    /\ UNCHANGED orchVars

SpecSizer == InitSizer /\ [][SizeBuy]_vars

(* ------------------------ the simulator's sell ------------------------- *)
BPS == 10000
FEE_BPS == 100

\* values of FEE_BPS: the default and MaxFee + 1 steps from 0 to 100%
FeeValues == {FEE_BPS} \cup {k * (BPS \div MaxFee) : k \in 0..MaxFee}

\* simulateSell: netReturn for a position of a resolved market, counted in
\* 1 / (BPS * BPS) of a USDC so that both multiplications are exact.
\* winningOutcome may be missing from the feed (NullOutcome), which is not null
simNetReturn(invested, outcome, winningOutcome, fee) ==
    LET returnAmount == IF winningOutcome = outcome
                        THEN invested * (BPS - fee)
                        ELSE 0
        feeLoss == returnAmount * fee
    IN returnAmount * BPS - feeLoss

InitSimSell ==
    /\ Parked
    /\ calc \in {[fn |-> "sell", invested |-> i, outcome |-> o, winningOutcome |-> w,
                   fee |-> f, done |-> FALSE, credit |-> 0] :
                      i \in 1..MaxBet, o \in {0, 1}, w \in {0, 1, NullOutcome},
                      f \in FeeValues}

\* simulateSell(slug, outcome, null, winningOutcome): this.balance += netReturn
SimulateSell ==
    /\ calc.fn = "sell" /\ ~calc.done
    /\ calc' = [calc EXCEPT
                  !.done = TRUE,
                  !.credit = simNetReturn(calc.invested, calc.outcome,
                                          calc.winningOutcome, calc.fee)]
    /\ UNCHANGED orchVars

SpecSimSell == InitSimSell /\ [][SimulateSell]_vars

(* ----------------------- the buy of an open leg ------------------------ *)
SLIPPAGE_BPS == 200
GasPadding == 10000

\* values of SLIPPAGE_BPS from 0 to 100%
SlippageValues == {0, 1, SLIPPAGE_BPS, BPS \div 2, BPS - 1, BPS}

\* values of MAX_GAS_WEI: up to MaxBudget times a padded gas limit
BudgetValues == {k * (GasPadding + MaxGasEst) : k \in 0..MaxBudget}

\* a guard without tolerance
minOutcomeTokensAll(expectedTokens, slippage) == expectedTokens

\* replicateOpen: expectedTokens - (expectedTokens * BigInt(SLIPPAGE_BPS)) / 10000n
minOutcomeTokensToBuy(expectedTokens, slippage) ==
    expectedTokens - (expectedTokens * slippage) \div BPS

\* replicateOpen: (gasEst * 120n) / 100n + 10000n
padded(gasEst) == (gasEst * 120) \div 100 + GasPadding

\* a cap per gas that rounds up
capPerGasCeil(maxGasWei, gl) == (maxGasWei + gl - 1) \div gl

\* txOverrides: const capPerGas = MAX_GAS_WEI / gl (BigInt division)
capPerGas(maxGasWei, gl) == maxGasWei \div gl

\* txOverrides(provider, gasLimit) when the provider suggests these fees
txOverrides(suggested, priority, gl, maxGasWei) ==
    LET fee == IF gl > 0 /\ suggested > capPerGas(maxGasWei, gl)
               THEN capPerGas(maxGasWei, gl) ELSE suggested
        tip == IF gl > 0 /\ priority > fee THEN fee ELSE priority
    IN [gasLimit |-> gl, maxFeePerGas |-> fee, maxPriorityFeePerGas |-> tip]

NoOverrides == [gasLimit |-> 0, maxFeePerGas |-> 0, maxPriorityFeePerGas |-> 0]

\* replicateOpen after the approval, with what the chain will answer: integral
\* says whether SLIPPAGE_BPS is an integer (BigInt throws on any other number)
InitBuy ==
    /\ Parked
    /\ calc \in {[fn |-> "buy", expected |-> x, slippage |-> b, integral |-> n,
                   gasEst |-> g, suggested |-> f, priority |-> MaxFeePerGas, budget |-> w,
                   step |-> "calc", estArg |-> 0, buyArg |-> 0, ov |-> NoOverrides,
                   submitted |-> FALSE] :
                      x \in 0..MaxExpected, b \in SlippageValues, n \in BOOLEAN,
                      g \in 0..MaxGasEst, f \in 0..MaxFeePerGas, w \in BudgetValues}

\* calcBuyAmount has answered: the guard is computed and estimateGasFor is called
\* with it; BigInt(SLIPPAGE_BPS) throws into the catch of replicateOpen
EstimateBuy ==
    /\ calc.fn = "buy" /\ calc.step = "calc"
    /\ calc' = IF calc.integral
               THEN [calc EXCEPT
                       !.step = "estimate",
                       !.estArg = minOutcomeTokensToBuy(calc.expected, calc.slippage)]
               ELSE [calc EXCEPT !.step = "caught"]
    /\ UNCHANGED orchVars

\* estimateGasFor has answered: without an estimate the leg returns, else the
\* overrides are built and marketContract.buy is called
SubmitBuy ==
    /\ calc.fn = "buy" /\ calc.step = "estimate"
    /\ calc' = IF calc.gasEst = 0
               THEN [calc EXCEPT !.step = "returned"]
               ELSE [calc EXCEPT
                       !.step = "sent",
                       !.ov = txOverrides(calc.suggested, calc.priority,
                                          padded(calc.gasEst), calc.budget),
                       !.buyArg = minOutcomeTokensToBuy(calc.expected, calc.slippage),
                       !.submitted = TRUE]
    /\ UNCHANGED orchVars

NextBuy == EstimateBuy \/ SubmitBuy

SpecBuy == InitBuy /\ [][NextBuy]_vars

(* ------------------ the overrides of every transaction ----------------- *)
\* the transactions the orchestrator submits: approve(0) and approve(needed) of
\* ensureUsdcApproval, setApprovalForAll of ensureErc1155Approval, buy, sell
TxKinds == {"approve0", "approve", "setApprovalForAll", "buy", "sell"}

\* a transaction about to be built: its gas estimate and the fee data that
\* provider.getFeeData() will give (maxFeePerGas ?? gasPrice ?? GAS_PRICE_GWEI,
\* maxPriorityFeePerGas ?? 0.1 gwei)
InitOverrides ==
    /\ Parked
    /\ calc \in {[fn |-> "overrides", tx |-> k, gasEst |-> g, suggested |-> f,
                   priority |-> t, budget |-> w, built |-> FALSE, ov |-> NoOverrides] :
                      k \in TxKinds, g \in 1..MaxGasEst, f \in 0..MaxFeePerGas,
                      t \in 0..MaxFeePerGas, w \in BudgetValues}

\* the call site pads the estimate, awaits txOverrides and passes the result
\* to the contract method
BuildOverrides ==
    /\ calc.fn = "overrides" /\ ~calc.built
    /\ calc' = [calc EXCEPT
                  !.built = TRUE,
                  !.ov = txOverrides(calc.suggested, calc.priority,
                                     padded(calc.gasEst), calc.budget)]
    /\ UNCHANGED orchVars

SpecOverrides == InitOverrides /\ [][BuildOverrides]_vars

(* ------------------ the same outcome, a new balance -------------------- *)
MaxTokens == 21

\* the quotient of two BigInts: the fraction is dropped
BigIntDiv(a, b) == IF a >= 0 THEN a \div b ELSE -((-a) \div b)

\* processPosition: lastBalance > 0n ? Number((increase * 100n) / lastBalance) : 0
increasePercent(balance, lastBalance) ==
    IF lastBalance > 0
    THEN BigIntDiv((balance - lastBalance) * 100, lastBalance)
    ELSE 0

\* a market seen with lastBalance whose outcome is reported again, with
\* targetBalance
InitIncrease ==
    /\ Parked
    /\ calc \in {[fn |-> "increase", lastBalance |-> l, targetBalance |-> t,
                   done |-> FALSE, logged |-> FALSE, seen |-> l] :
                      l \in 0..MaxTokens, t \in 1..MaxTokens}

\* the last branch of processPosition: the INCREASED line is logged when
\* increasePercent > 10, and the new balance is recorded
CompareBalance ==
    /\ calc.fn = "increase" /\ ~calc.done
    /\ calc' = [calc EXCEPT
                  !.done = TRUE,
                  !.logged = increasePercent(calc.targetBalance, calc.lastBalance) > 10,
                  !.seen = calc.targetBalance]
    /\ UNCHANGED orchVars

SpecIncrease == InitIncrease /\ [][CompareBalance]_vars

(* ------------------- the approval before the buy ----------------------- *)
MaxNeeded == 2
MaxAllowance == 3
MaxWallet == 3

\* what a failed eth_call raises
ReadErrors == {"timeout", "rpc"}

NoneSent == [approve0 |-> 0, approve |-> 0, buy |-> 0]

\* a loop that never gives up
retryAlways(attempt) == TRUE

\* readAllowance: if (attempt < 2) { await delay(...); continue; } throw e;
retryAgain(attempt) == attempt < 2

\* a re-check that trusts the approval
okAssumed(after, needed) == TRUE

\* ensureUsdcApproval: const ok = after >= needed
ok(after, needed) == after >= needed

\* replicateOpen has computed the investment and is about to read the balance
InitApproval ==
    /\ Parked
    /\ calc \in {[fn |-> "approval", needed |-> n, step |-> "balance", usdcBal |-> -1,
                   call |-> "first", attempt |-> 0, reads |-> 0, fails |-> 0,
                   waits |-> 0, errs |-> <<>>, ret |-> "none", thrown |-> "none",
                   lastRead |-> -1, current |-> -1, approvalOk |-> "pending",
                   failure |-> "none", sent |-> NoneSent] : n \in 1..MaxNeeded}

\* usdc.balanceOf(wallet.address) has answered
ReadBalance ==
    /\ calc.fn = "approval" /\ calc.step = "balance"
    /\ \E b \in 0..MaxWallet :
         calc' = [calc EXCEPT
                    !.usdcBal = b,
                    !.step = IF b < calc.needed THEN "returned" ELSE "read"]
    /\ UNCHANGED orchVars

\* the allowance the caller goes on with after the first readAllowance
AfterFirstRead(c, current) ==
    [c EXCEPT !.current = current,
              !.approvalOk = IF current >= c.needed THEN "true" ELSE "pending",
              !.step = IF current >= c.needed THEN "approved"
                       ELSE IF current > 0 THEN "approve0" ELSE "approve"]

\* one attempt of readAllowance: usdc.allowance answers or raises; the answer is
\* returned at once, an error is retried after a delay while attempt < 2 and
\* thrown to the caller otherwise
AllowanceAttempt ==
    /\ calc.fn = "approval" /\ calc.step = "read"
    /\ \/ \E a \in 0..MaxAllowance :
            LET c == [calc EXCEPT !.reads = @ + 1, !.lastRead = a, !.ret = "value"]
            IN calc' = IF calc.call = "first"
                       THEN AfterFirstRead(c, a)
                       ELSE IF ok(a, calc.needed)
                            THEN [c EXCEPT !.approvalOk = "true", !.step = "approved"]
                            ELSE [c EXCEPT !.approvalOk = "false", !.step = "returned",
                                           !.failure = "recheck"]
       \/ \E x \in ReadErrors :
            LET c == [calc EXCEPT !.reads = @ + 1, !.fails = @ + 1,
                                  !.errs = Append(@, x)]
            IN calc' = IF retryAgain(calc.attempt)
                       THEN [c EXCEPT !.step = "delay"]
                       ELSE IF calc.call = "first"
                            THEN AfterFirstRead([c EXCEPT !.ret = "error", !.thrown = x], 0)
                            ELSE [c EXCEPT !.ret = "error", !.thrown = x,
                                           !.approvalOk = "false", !.step = "returned",
                                           !.failure = "recheck"]
    /\ UNCHANGED orchVars

\* await delay(1000 * (attempt + 1)); continue
DelayDone ==
    /\ calc.fn = "approval" /\ calc.step = "delay"
    /\ calc' = [calc EXCEPT !.waits = @ + 1, !.attempt = @ + 1, !.step = "read"]
    /\ UNCHANGED orchVars

\* how an approve goes: no gas estimate, an exception before the submission,
\* a submitted transaction whose wait() raises, a confirmed transaction
ApproveOutcomes == {"nogas", "throw", "reverted", "ok"}

\* approve(marketAddress, 0n) when the allowance read was positive
Approve0 ==
    /\ calc.fn = "approval" /\ calc.step = "approve0"
    /\ \E r \in ApproveOutcomes :
         calc' = CASE r = "nogas" ->
                        [calc EXCEPT !.approvalOk = "false", !.step = "returned",
                                     !.failure = "approve0gas"]
                   [] r = "throw" ->
                        [calc EXCEPT !.approvalOk = "false", !.step = "returned",
                                     !.failure = "approve0tx"]
                   [] r = "reverted" ->
                        [calc EXCEPT !.approvalOk = "false", !.step = "returned",
                                     !.failure = "approve0tx", !.sent.approve0 = @ + 1]
                   [] r = "ok" ->
                        [calc EXCEPT !.step = "approve", !.sent.approve0 = @ + 1]
    /\ UNCHANGED orchVars

\* approve(marketAddress, needed); when it is confirmed the allowance is read
\* again by a new call of readAllowance
ApproveNeeded ==
    /\ calc.fn = "approval" /\ calc.step = "approve"
    /\ \E r \in ApproveOutcomes :
         calc' = CASE r = "nogas" ->
                        [calc EXCEPT !.approvalOk = "false", !.step = "returned",
                                     !.failure = "approvegas"]
                   [] r = "throw" ->
                        [calc EXCEPT !.approvalOk = "false", !.step = "returned",
                                     !.failure = "approvetx"]
                   [] r = "reverted" ->
                        [calc EXCEPT !.approvalOk = "false", !.step = "returned",
                                     !.failure = "approvetx", !.sent.approve = @ + 1]
                   [] r = "ok" ->
                        [calc EXCEPT !.step = "read", !.call = "after", !.attempt = 0,
                                     !.reads = 0, !.fails = 0, !.waits = 0,
                                     !.errs = <<>>, !.ret = "none", !.thrown = "none",
                                     !.sent.approve = @ + 1]
    /\ UNCHANGED orchVars

\* ensureUsdcApproval returned true: calcBuyAmount, the gas estimate and the buy
BuyApproved ==
    /\ calc.fn = "approval" /\ calc.step = "approved"
    /\ \E r \in {"nogas", "throw", "ok"} :
         calc' = IF r = "ok"
                 THEN [calc EXCEPT !.step = "sent", !.sent.buy = @ + 1]
                 ELSE [calc EXCEPT !.step = "returned"]
    /\ UNCHANGED orchVars

NextApproval ==
    \/ ReadBalance
    \/ AllowanceAttempt
    \/ DelayDone
    \/ Approve0
    \/ ApproveNeeded
    \/ BuyApproved

SpecApproval == InitApproval /\ [][NextApproval]_vars

(* ------------------------- the TradeTracker alone ---------------------- *)
\* an id that no entry has
UnknownTradeId == -1

\* (marketSlug, outcome) of the calls
LedgerKeys == {<<"m1", 1>>, <<"m1", 0>>}

\* (returnAmount, pnlAmount) of a sell of a position bought for 1: nothing
\* returned (the orchestrator's format of the pnl), or MaxAmount returned (the
\* simulator's)
SellAmounts == {<<0, <<-1>>>>, <<MaxAmount, <<MaxAmount - 2, 5>>>>}

\* BigInt(str) of an optional decimal string: throws unless it is an integer
BigIntParses(str) == Len(str) = 1

\* a total that counts the positions still open only
investedOfOpen(trade) ==
    IF trade.type = "BUY" /\ trade.status = "OPEN" THEN trade.investmentAmount ELSE 0

\* updateStats: what an entry adds to totalInvested (buys only; an amount that
\* is falsy adds nothing)
investedOf(trade) ==
    IF trade.type = "BUY" /\ trade.investmentAmount # 0 THEN trade.investmentAmount ELSE 0

\* updateStats: for (const buy of buys) totalInvested += BigInt(buy.investmentAmount)
RECURSIVE totalInvested(_, _)
totalInvested(trs, n) ==
    IF n = 0 THEN 0 ELSE totalInvested(trs, n - 1) + investedOf(trs[n])

\* updateStats: for (const sell of sells) totalReturned += actualReturnReceived,
\* else returnAmount; a string that BigInt rejects is skipped by the catch
RECURSIVE totalReturned(_, _)
totalReturned(trs, n) ==
    IF n = 0 THEN 0
    ELSE totalReturned(trs, n - 1)
         + (IF trs[n].type # "SELL" THEN 0
            ELSE IF trs[n].actualReturnReceived # <<>>
                 THEN (IF BigIntParses(trs[n].actualReturnReceived)
                       THEN trs[n].actualReturnReceived[1] ELSE 0)
                 ELSE trs[n].returnAmount)

\* updateStats: closedPositions, profitableClosedTrades
closedPositions(trs) == {i \in 1..Len(trs) : trs[i].type = "BUY" /\ trs[i].status = "CLOSED"}
profitableClosedTrades(trs) ==
    {i \in closedPositions(trs) :
        /\ trs[i].realizedPnL # <<>>
        /\ BigIntParses(trs[i].realizedPnL)
        /\ trs[i].realizedPnL[1] > 0}

\* (x * 100).toFixed(2) of the quotient a / b, in hundredths of a percent;
\* toFixed takes the nearest, the larger of two
toFixed2(a, b) == (20000 * a + b) \div (2 * b)

\* updateStats
updateStats(trs) ==
    LET closed == Cardinality(closedPositions(trs))
    IN [totalTrades |-> Len(trs),
        totalBuys |-> Cardinality({i \in 1..Len(trs) : trs[i].type = "BUY"}),
        totalSells |-> Cardinality({i \in 1..Len(trs) : trs[i].type = "SELL"}),
        totalInvested |-> totalInvested(trs, Len(trs)),
        totalReturned |-> totalReturned(trs, Len(trs)),
        totalPnL |-> totalReturned(trs, Len(trs)) - totalInvested(trs, Len(trs)),
        activePositions |-> Len(getOpenPositions(trs)),
        closedPositions |-> closed,
        winRate |-> IF closed > 0
                    THEN toFixed2(Cardinality(profitableClosedTrades(trs)), closed)
                    ELSE 0]

\* getStats: updateStats(), then this.stats
getStats(trs) == updateStats(trs)

\* a save that writes the statistics it finds
statsKept(trs, stats) == stats

\* save: this.updateStats() before the document is built
statsSaved(trs, stats) == updateStats(trs)

\* save: the document that writeFileSync writes in one call
Document(trs, stats) == [trades |-> trs, stats |-> statsSaved(trs, stats)]

\* updateTrade: Object.assign(trade, updates)
ObjectAssign(trade, updates) ==
    [f \in DOMAIN trade |-> IF f \in DOMAIN updates THEN updates[f] ELSE trade[f]]

\* what the callers of updateTrade may pass
Updates ==
    {[status |-> "OPEN"], [actualReturnReceived |-> <<>>]}

HasId(trs, id) == \E i \in 1..Len(trs) : trs[i].id = id
FirstWithId(trs, id) ==
    CHOOSE k \in 1..Len(trs) : trs[k].id = id /\ \A j \in 1..(k-1) : trs[j].id # id

updateTrade(trs, tradeId, updates) ==
    IF HasId(trs, tradeId)
    THEN [trs EXCEPT ![FirstWithId(trs, tradeId)] = ObjectAssign(@, updates)]
    ELSE trs

\* calc of this part: the file written by save (stats of the constructor's save
\* of an empty list), this.stats, the call in progress and the calls made
InitLedger ==
    /\ Parked
    /\ calc = [fn |-> "ledger", file |-> Document(<<>>, updateStats(<<>>)),
               stats |-> updateStats(<<>>), op |-> "new", found |-> 0, ops |-> 0]

Callable == calc.fn = "ledger" /\ calc.op # "recordSell:closed" /\ calc.ops < MaxOps

ledgerFrame ==
    UNCHANGED <<lastSeenPositions, ourPositions, isInitialSync, stateFile, timerOn,
                pc, todo, ev, ourPos, closeRes, openRes, polls, restarts, feed, fresh,
                quiet, failedLeg>>

\* a call that ends with save()
Saved(op, trs) ==
    /\ trades' = trs
    /\ calc' = [calc EXCEPT !.file = Document(trs, calc.stats),
                            !.stats = statsSaved(trs, calc.stats),
                            !.op = op, !.found = 0, !.ops = calc.ops + 1]
    /\ ledgerFrame

\* a call that returns before save()
NotSaved(op) ==
    /\ calc' = [calc EXCEPT !.op = op, !.ops = calc.ops + 1]
    /\ UNCHANGED trades
    /\ ledgerFrame

RecordBuy ==
    /\ Callable
    /\ \E key \in LedgerKeys, amount \in 1..MaxAmount :
          Saved("recordBuy", recordBuy(trades, key[1], key[2], amount))

\* recordSell up to the return of closeTrade, which has saved when it found the
\* entry; the SELL has its id and the BUY is closed
RecordSellClose ==
    /\ Callable
    /\ \E key \in LedgerKeys, related \in {0, UnknownTradeId} \cup (1..Len(trades)),
          sold \in SellAmounts :
          LET ret == sold[1]
              pnl == sold[2]
          IN
          LET buy == relatedBuy(trades, key[1], key[2], related)
              trs == recordSellClose(trades, key[1], key[2], related, 1, ret, pnl)
          IN /\ trades' = trs
             /\ calc' = [calc EXCEPT
                           !.file = IF HasId(trs, buy) THEN Document(trs, calc.stats) ELSE @,
                           !.stats = IF HasId(trs, buy) THEN statsSaved(trs, calc.stats) ELSE @,
                           !.op = "recordSell:closed",
                           !.found = IF related = 0 THEN buy ELSE 0]
             /\ ledgerFrame

\* recordSell from the return of closeTrade: trade.relatedBuyTradeId = relatedBuy.id
\* when findOpenBuy found one, then save()
RecordSellSave ==
    /\ calc.fn = "ledger" /\ calc.op = "recordSell:closed"
    /\ Saved("recordSell",
             IF calc.found # 0
             THEN [trades EXCEPT ![Len(trades)].relatedBuyTradeId = calc.found]
             ELSE trades)

CloseTrade ==
    /\ Callable
    /\ \E id \in {UnknownTradeId} \cup (1..Len(trades)) :
          IF HasId(trades, id)
          THEN Saved("closeTrade", closeTrade(trades, id, <<1>>))
          ELSE NotSaved("closeTrade")

UpdateTrade ==
    /\ Callable
    /\ \E id \in {UnknownTradeId} \cup (1..Len(trades)), updates \in Updates :
          IF HasId(trades, id)
          THEN Saved("updateTrade", updateTrade(trades, id, updates))
          ELSE NotSaved("updateTrade")

NextLedger == RecordBuy \/ RecordSellClose \/ RecordSellSave \/ CloseTrade \/ UpdateTrade

SpecLedger == InitLedger /\ [][NextLedger]_vars

(* ------------------- a live buy and its live sell ---------------------- *)
MaxInvested == 250

\* a position about to be opened with this investment; paid is what the market
\* will pay for the tokens when they are sold
InitSell ==
    /\ Parked
    /\ calc \in {[fn |-> "liveSell", amount |-> a, outcome |-> o, paid |-> a * k,
                   step |-> "buy"] :
                      a \in 1..MaxInvested, o \in {0, 1}, k \in {0, 2}}

\* replicateOpen after buyTx.wait: recordBuy
LiveBuy ==
    /\ calc.fn = "liveSell" /\ calc.step = "buy"
    /\ trades' = recordBuy(trades, "m1", calc.outcome, calc.amount)
    /\ calc' = [calc EXCEPT !.step = "held"]
    /\ ledgerFrame

\* replicateClose after sellTx.wait: pnlAmount, recordSell with the id of the BUY
LiveSell ==
    /\ calc.fn = "liveSell" /\ calc.step = "held"
    /\ LET investedAmount == calc.amount
           returnAmount == sellReturnAmount(investedAmount)
           pnlAmount == returnAmount - investedAmount
       IN trades' = recordSell(trades, "m1", calc.outcome, trades[1].id,
                               investedAmount, returnAmount, <<pnlAmount>>)
    /\ calc' = [calc EXCEPT !.step = "sold"]
    /\ ledgerFrame

NextSell == LiveBuy \/ LiveSell

SpecSell == InitSell /\ [][NextSell]_vars

(* --------------------------- a simulator run --------------------------- *)
MaxStart == 2
MaxStake == 2
MaxValue == 2
MaxSimSteps == 3
MaxRuns == 2

\* balances of the simulator are counted in 1 / (BPS * BPS) of a USDC
SimUnit == BPS * BPS

NoSimPosition == [outcome |-> NullOutcome, invested |-> 0, buyId |-> 0]
NoPending == [slug |-> "", outcome |-> NullOutcome, target |-> 0]

\* simulateBuy: ourInvestment in USDC under the configuration of the run
simInvestment(targetInvestment) ==
    ourInvestment(targetInvestment, MIN_BET_USDC, MAX_BET_USDC, BET_MULTIPLIER * MultDen)
        \div MultDen

\* a balance check that always passes
insufficientNever(balance, invested) == FALSE

\* simulateBuy: if (this.balance < ourInvestment) return false
insufficient(balance, invested) == balance < invested * SimUnit

\* simulateBuy on simulator c with ledger trs: the balance is checked, then the
\* investment deducted, the position set and the BUY recorded; buyId is the id
\* that recordBuy returned, which the position itself does not keep
simulateBuy(c, trs, slug, outcome, targetInvestment) ==
    LET inv == simInvestment(targetInvestment)
    IN IF insufficient(c.balance, inv)
       THEN [c |-> [c EXCEPT !.last = "refused"], trs |-> trs]
       ELSE [c |-> [c EXCEPT !.balance = @ - inv * SimUnit,
                             !.positions[slug] = [outcome |-> outcome, invested |-> inv,
                                                  buyId |-> generateTradeId(trs)],
                             !.last = "bought"],
             trs |-> recordBuy(trs, slug, outcome, inv * COLLATERAL_UNIT)]

\* simulateSell: returnAmount in 1 / BPS of a USDC; a marketValue of null or 0
\* gives invested * 0.95
simReturnAmount(invested, outcome, marketValue, resolved, winningOutcome, fee) ==
    IF resolved
    THEN IF winningOutcome = outcome THEN invested * (BPS - fee) ELSE 0
    ELSE IF marketValue # 0 THEN marketValue * BPS ELSE invested * ((BPS * 95) \div 100)

\* simulateSell on simulator c with ledger trs; the amounts written to the
\* ledger are netReturn * 1e6 and pnlAmount * 1e6, whole numbers for every fee
\* of FeeValues
simulateSell(c, trs, slug, outcome, marketValue, resolved, winningOutcome) ==
    LET position == c.positions[slug]
        returnAmount == simReturnAmount(position.invested, outcome, marketValue,
                                        resolved, winningOutcome, c.fee)
        feeLoss == returnAmount * c.fee
        netReturn == returnAmount * BPS - feeLoss
        ret == netReturn \div (SimUnit \div COLLATERAL_UNIT)
    IN IF position = NoSimPosition \/ position.outcome # outcome
       THEN [c |-> c, trs |-> trs]
       ELSE [c |-> [c EXCEPT !.balance = @ + netReturn,
                             !.positions[slug] = NoSimPosition,
                             !.sold = position.buyId,
                             !.last = "sold"],
             trs |-> recordSell(trs, slug, outcome, 0, position.invested * COLLATERAL_UNIT,
                                ret, <<ret - position.invested * COLLATERAL_UNIT>>)]

\* new TradingSimulator() with STARTING_BALANCE_USDC = start and FEE_BPS = fee
NewSimulator(start, fee, runs, steps) ==
    [fn |-> "sim", start |-> start, fee |-> fee, balance |-> start * SimUnit,
     positions |-> [m \in Markets |-> NoSimPosition], pending |-> NoPending,
     sold |-> 0, last |-> "none", runs |-> runs, steps |-> steps]

\* the first run: no ledger file yet
InitSim ==
    /\ Parked
    /\ calc \in {NewSimulator(b, f, 1, 0) : b \in {0, MaxStart}, f \in FeeValues}

SimCanStep == calc.fn = "sim" /\ calc.pending = NoPending /\ calc.steps < MaxSimSteps

\* runSimulation, a position of a RESOLVED market
SimResolved ==
    /\ SimCanStep
    /\ \E m \in Markets, w \in {0, 1, NullOutcome} :
         LET c == [calc EXCEPT !.steps = @ + 1, !.last = "none"]
             r == IF c.positions[m] # NoSimPosition
                  THEN simulateSell(c, trades, m, c.positions[m].outcome, 0, TRUE, w)
                  ELSE [c |-> c, trs |-> trades]
         IN calc' = r.c /\ trades' = r.trs
    /\ ledgerFrame

\* runSimulation, a position of an active market: a buy when the market has no
\* position, the sell of a switch when the position has the other outcome
SimActive ==
    /\ SimCanStep
    /\ \E m \in Markets, o \in {0, 1}, t \in {1, MaxStake}, mv \in {0, MaxValue} :
         LET c == [calc EXCEPT !.steps = @ + 1, !.last = "none"]
             r == IF c.positions[m] = NoSimPosition
                  THEN simulateBuy(c, trades, m, o, t)
                  ELSE IF c.positions[m].outcome # o
                  THEN LET sell == simulateSell(c, trades, m, c.positions[m].outcome,
                                                mv, FALSE, NullOutcome)
                       IN [c |-> [sell.c EXCEPT !.pending =
                                     [slug |-> m, outcome |-> o, target |-> t]],
                           trs |-> sell.trs]
                  ELSE [c |-> c, trs |-> trades]
         IN calc' = r.c /\ trades' = r.trs
    /\ ledgerFrame

\* runSimulation, the buy that follows the sell of a switch
SimSwitchBuy ==
    /\ calc.fn = "sim" /\ calc.pending # NoPending
    /\ LET r == simulateBuy([calc EXCEPT !.pending = NoPending], trades,
                            calc.pending.slug, calc.pending.outcome, calc.pending.target)
       IN calc' = r.c /\ trades' = r.trs
    /\ ledgerFrame

\* the simulator is started again: the TradeTracker loads the ledger file of the
\* earlier run, the positions map and the balance start anew
SimNewRun ==
    /\ calc.fn = "sim" /\ calc.pending = NoPending
    /\ calc.runs < MaxRuns
    /\ calc' = NewSimulator(calc.start, calc.fee, calc.runs + 1, calc.steps)
    /\ UNCHANGED trades
    /\ ledgerFrame

NextSim == SimResolved \/ SimActive \/ SimSwitchBuy \/ SimNewRun

SpecSim == InitSim /\ [][NextSim]_vars

(* ------------------------------ properties ----------------------------- *)
LegPcs == {"oPre", "oWait", "cPre", "cWait"}
SubmittedPcs == {"oWait", "cWait"}

\* the market a pass at "next" has just left
JustLeft(p) == FeedOrder[Len(FeedOrder) - Len(todo[p])]

\* C1: after any sequence of passes, getOpenPositions() never holds two OPEN BUY
\* entries of one market
C1_TwoOpenBuys ==
    LET open == getOpenPositions(trades)
    IN \A i, j \in 1..Len(open) : i # j => open[i].marketSlug # open[j].marketSlug

\* C2: when a SWITCHED event has led to a BUY of the new outcome, the close leg of
\* the same pass did not fail before it (here only the weakest form: the BUY is
\* never recorded after a close leg that failed)
C2_BuyAfterFailedClose ==
    \A p \in Slots : ev[p] = "SWITCHED" /\ openRes[p] = "ok" => closeRes[p] # "fail"

\* C3: no two passes are inside a leg (replicateOpen / replicateClose) of the same
\* market at the same time
C3_TwoLegsOneMarket ==
    \A p, q \in Slots :
        p # q /\ pc[p] \in LegPcs /\ pc[q] \in LegPcs => CurMarket(p) # CurMarket(q)

\* C4: for one opening of a market by the target, no second buy is submitted while
\* the first is not yet recorded in the last-seen map
C4_TwoBuysOneOpening ==
    \A p, q \in Slots :
        (/\ p # q
         /\ pc[p] = "oWait" /\ pc[q] = "oWait"
         /\ ev[p] = "OPENED" /\ ev[q] = "OPENED"
         /\ CurPos(p) = CurPos(q))
        => CurMarket(p) # CurMarket(q)

\* the first pass of the first process has left its loop
FirstPassDone == polls = 1 /\ restarts = 0 /\ pc[1] = "next" /\ ~HasNext(1)

\* the second pass of the first process runs, against the snapshot of the first
SecondPassSame == polls = 2 /\ restarts = 0 /\ pc[1] # "idle" /\ quiet

NothingSubmitted == trades = <<>> /\ \A p \in Slots : pc[p] \notin SubmittedPcs

C6_SuppressedLater ==
    \A p \in Slots : openRes[p] = "suppressed" => ~timerOn

\* C7: after a restart, while the target's snapshot is the one of the last
\* completed pass, no buy and no sell is submitted
C7_ReplayAfterRestart ==
    restarts >= 1 /\ quiet => \A p \in Slots : pc[p] \notin SubmittedPcs

\* no pass but p is running
Alone(p) == \A q \in Slots \ {p} : pc[q] = "idle"

\* C8: when a leg has failed for a market and the target's snapshot is unchanged,
\* the next poll that processes that market runs the leg again
C8_FailedLegRunsAgain ==
    [][\A p \in Slots :
          (/\ pc[p] = "next" /\ HasNext(p)
           /\ (pc'[p] # pc[p] \/ todo'[p] # todo[p])
           /\ restarts = 0 /\ restarts' = 0
           /\ CurPos(p) = feed[CurMarket(p)]
           /\ failedLeg[CurMarket(p)] \in {"openDue", "closeDue"})
          => pc'[p] = (IF failedLeg[CurMarket(p)] = "openDue" THEN "oPre" ELSE "cPre")]_vars

\* C9: when the open leg fails, up to and including the confirmation wait, no
\* LocalPosition exists for the market afterwards and no BUY entry was appended
C9_PositionAfterFailedOpen ==
    [][\A p \in Slots :
          pc[p] \in {"oPre", "oWait"} /\ openRes'[p] = "fail" /\ Alone(p)
              => ourPositions'[CurMarket(p)] = NoPosition /\ trades' = trades]_vars

\* C10: a pass returns only when its loop has left every position of the answer,
\* whatever happened in the legs
C10_EveryPositionProcessed ==
    [][\A p \in Slots :
          pc[p] \notin {"idle", "fetch"} /\ pc'[p] = "idle" /\ restarts' = restarts
              => todo[p] = <<>>]_vars

\* the leg of the first market failed in the second pass, and the pass went on
\* through the second market to the end of its loop
C10_Witness ==
    /\ polls = 2 /\ restarts = 0
    /\ failedLeg[FeedOrder[1]] # "none"
    /\ pc[1] = "next" /\ ~HasNext(1) /\ fresh[1]
    /\ ev[1] # "NONE"

\* pass p takes the step of processPosition for the head of its list
ProcessStep(p) ==
    /\ pc[p] = "next" /\ HasNext(p)
    /\ (todo'[p] # todo[p] \/ pc'[p] # pc[p])
    /\ restarts' = restarts

\* the last-seen map records for market m what position pos holds
Recorded(m, pos) ==
    IF targetOutcome(pos) = NullOutcome
    THEN lastSeenPositions[m] = NoSeen
    ELSE /\ lastSeenPositions[m].outcomeIndex = targetOutcome(pos)
         /\ lastSeenPositions[m].tokensBalance = targetBalance(pos)

\* C11: processing a position that equals what the last-seen map records for its
\* market starts no leg and leaves the last-seen map, the LocalPositions and the
\* ledger unchanged
C11_ReplayIsSilent ==
    [][\A p \in Slots :
          ProcessStep(p) /\ Recorded(CurMarket(p), CurPos(p))
          => /\ pc'[p] = "next"
             /\ ev'[p] \in {"SAME", "NONE", "SKIPPED"}
             /\ lastSeenPositions' = lastSeenPositions
             /\ ourPositions' = ourPositions
             /\ trades' = trades]_vars

\* a pass has gone through a snapshot that the last-seen map recorded in full,
\* and the map is as it was saved before the pass
C11_Witness ==
    /\ pc[1] = "next" /\ ~HasNext(1) /\ ev[1] = "SAME"
    /\ \A m \in Markets : Recorded(m, feed[m])
    /\ \E m \in Markets : ~IsSkipped(feed[m]) /\ lastSeenPositions[m].tokensBalance = MaxBalance
    /\ lastSeenPositions = stateFile.lastSeenPositions
    /\ ourPositions = stateFile.ourPositions

\* C12: for a position with no determinable outcome, processPosition runs the
\* close leg with the outcome last seen and removes the last-seen entry when the
\* market has one, and does nothing when it has none
C12_ClosedWhenOutcomeGone ==
    [][\A p \in Slots :
          LET m == CurMarket(p)
              seen == lastSeenPositions[m]
          IN /\ (ProcessStep(p) /\ targetOutcome(CurPos(p)) = NullOutcome /\ seen # NoSeen)
                => /\ ev'[p] = "CLOSED"
                   /\ \/ pc'[p] = "cPre" /\ ourPos'[p].outcomeIndex = seen.outcomeIndex
                      \/ pc'[p] = "next" /\ lastSeenPositions'[m] = NoSeen
             /\ (ProcessStep(p) /\ targetOutcome(CurPos(p)) = NullOutcome /\ seen = NoSeen)
                => /\ pc'[p] = "next"
                   /\ UNCHANGED <<lastSeenPositions, ourPositions, trades>>
             /\ (pc[p] \in {"cPre", "cWait"} /\ ev[p] = "CLOSED" /\ pc'[p] = "next")
                => lastSeenPositions'[m] = NoSeen]_vars

\* C13: when a market of the snapshot is resolved and a LocalPosition is held in
\* it, processPosition produces a CLOSED event for it and starts the close leg
C13_ResolvedIsClosed ==
    [][\A p \in Slots :
          (/\ ProcessStep(p)
           /\ CurPos(p).status = "RESOLVED"
           /\ ourPositions[CurMarket(p)] # NoPosition)
          => ev'[p] = "CLOSED" /\ pc'[p] = "cPre"]_vars

C14_SameOutcome ==
    calc.fn = "outcome" /\ calc.done => calc.live = calc.sim

Sized == calc.fn = "size" /\ calc.done

\* clamp(x, lo, hi) of the design
Clamp(x, lo, hi) == IF x < lo THEN lo ELSE IF x > hi THEN hi ELSE x

\* C16: with min <= max, the investment of an open leg is
\* clamp(targetInvestment * multiplier, min, max) in the live orchestrator and in
\* the simulator
C16_SizeFollowsTarget ==
    Sized /\ calc.minBet <= calc.maxBet
        => LET want == Clamp(calc.target * calc.mult,
                             calc.minBet * MultDen, calc.maxBet * MultDen)
           IN calc.live = want /\ calc.sim = want

\* C17: no buy is sized when the minimum bet is greater than the maximum bet
C17_InvalidConfigRejected ==
    Sized => calc.minBet <= calc.maxBet

SellsOf(trs, id) == {i \in 1..Len(trs) : trs[i].type = "SELL" /\ trs[i].relatedBuyTradeId = id}

\* pass p is told that its sell is confirmed
ConfirmedClose(p) == pc[p] = "cWait" /\ closeRes'[p] = "ok"

\* C19: when the sell of a close leg is confirmed for a LocalPosition opened by a
\* recorded BUY, the ledger then holds exactly one SELL of that BUY, the BUY is
\* CLOSED, the SELL's pnlAmount is its return less the BUY's investment, and the
\* market has no LocalPosition
C19_OneSellPerBuy ==
    [][\A p \in Slots :
          LET id == ourPos[p].tradeId
          IN (ConfirmedClose(p) /\ id # 0)
             => /\ Cardinality(SellsOf(trades', id)) = 1
                /\ \A i \in 1..Len(trades') :
                      trades'[i].id = id /\ trades'[i].type = "BUY"
                      => /\ trades'[i].status = "CLOSED"
                         /\ \A k \in SellsOf(trades', id) :
                               trades'[k].pnlAmount =
                                  <<trades'[k].returnAmount - trades'[i].investmentAmount>>
                /\ ourPositions'[CurMarket(p)] = NoPosition]_vars

\* C20: a close leg that finds no LocalPosition of the outcome it closes submits
\* nothing and changes neither the ledger nor the LocalPositions; and no sell is
\* in flight for a LocalPosition that another sell in flight, or a recorded
\* SELL, has already closed
C20_NoSecondSell ==
    /\ \A p \in Slots :
          closeRes[p] = "noop"
          => pc[p] \notin {"cPre", "cWait"}
    /\ \A p \in Slots :
          pc[p] = "cWait"
          => /\ \A q \in Slots \ {p} :
                   ~(pc[q] = "cWait" /\ CurMarket(q) = CurMarket(p) /\ ourPos[q] = ourPos[p])
             /\ ourPos[p].tradeId # 0 => SellsOf(trades, ourPos[p].tradeId) = {}

(* ------------------------ the TradeTracker alone ----------------------- *)
\* the call that this step belongs to has pushed a SELL
SellPushed == calc.fn = "ledger" /\ calc'.op = "recordSell:closed" /\ calc.op # calc'.op
NewSell == trades'[Len(trades')]

\* the entries that were OPEN BUYs of the market and outcome of the SELL pushed
OpenBuysFor(sell) ==
    {i \in 1..Len(trades) :
        /\ trades[i].type = "BUY" /\ trades[i].status = "OPEN"
        /\ trades[i].marketSlug = sell.marketSlug /\ trades[i].outcome = sell.outcome}

\* C21: a SELL that is recorded with a relatedBuyTradeId names a BUY of its own
\* market and outcome that is OPEN at that moment, and the BUY that recordSell
\* finds by itself is such a BUY
C21_SellNamesOpenBuy ==
    [][/\ (SellPushed /\ NewSell.relatedBuyTradeId # 0)
          => \E i \in OpenBuysFor(NewSell) : trades[i].id = NewSell.relatedBuyTradeId
       /\ (SellPushed /\ calc'.found # 0)
          => \E i \in OpenBuysFor(NewSell) : trades[i].id = calc'.found]_vars

\* C22: a recordSell or closeTrade call leaves the status and the realizedPnL of
\* every BUY that is CLOSED as they are
C22_ClosedOnce ==
    [][\A i \in 1..Len(trades) :
          (/\ calc.fn = "ledger"
           /\ calc'.op \in {"recordSell:closed", "recordSell", "closeTrade"}
           /\ trades[i].type = "BUY" /\ trades[i].status = "CLOSED")
          => /\ trades'[i].status = "CLOSED"
             /\ trades'[i].realizedPnL = trades[i].realizedPnL]_vars

\* C23: recordSell without a relatedBuyTradeId closes the OPEN BUY of the market
\* and outcome that was recorded last, and changes no other entry
C23_LinksMostRecentBuy ==
    [][(SellPushed /\ NewSell.relatedBuyTradeId = 0 /\ OpenBuysFor(NewSell) # {})
       => LET last == CHOOSE i \in OpenBuysFor(NewSell) :
                          \A j \in OpenBuysFor(NewSell) : j <= i
          IN /\ calc'.found = trades[last].id
             /\ trades'[last].status = "CLOSED"
             /\ \A j \in 1..Len(trades) : j # last => trades'[j] = trades[j]]_vars

\* the sum of a * (number of entries whose amount is a), for a up to n
RECURSIVE Weighted(_, _)
Weighted(count, n) == IF n = 0 THEN 0 ELSE n * count[n] + Weighted(count, n - 1)

\* the return of a SELL: the amount received when one is recorded, else the
\* amount asked for
ReturnOf(t) == IF t.actualReturnReceived # <<>> THEN t.actualReturnReceived[1] ELSE t.returnAmount

\* C24: getStats() gives the sum of the investments of the BUYs, the sum of the
\* returns of the SELLs and their difference, for every list of entries with
\* integer amounts
C24_TotalsAreSums ==
    calc.fn = "ledger"
    => LET st == getStats(trades)
           buys == [a \in 1..MaxAmount |->
                      Cardinality({i \in 1..Len(trades) :
                         trades[i].type = "BUY" /\ trades[i].investmentAmount = a})]
           sells == [a \in 1..MaxAmount |->
                       Cardinality({i \in 1..Len(trades) :
                          trades[i].type = "SELL" /\ ReturnOf(trades[i]) = a})]
       IN /\ st.totalInvested = Weighted(buys, MaxAmount)
          /\ st.totalReturned = Weighted(sells, MaxAmount)
          /\ st.totalPnL = st.totalReturned - st.totalInvested

\* a ledger with an OPEN and a CLOSED BUY and a SELL that returned something
C24_Witness ==
    /\ calc.fn = "ledger" /\ calc.op = "recordSell"
    /\ \E i, j, k \in 1..Len(trades) :
          /\ trades[i].type = "BUY" /\ trades[i].status = "OPEN"
          /\ trades[j].type = "BUY" /\ trades[j].status = "CLOSED"
          /\ trades[i].investmentAmount # trades[j].investmentAmount
          /\ trades[k].type = "SELL" /\ trades[k].returnAmount > 0
    /\ getStats(trades).totalPnL < 0

\* C25: the file holds a list of entries with the statistics of that list, at
\* every write, and the list of the tracker when a call has returned
C25_FileIsConsistent ==
    calc.fn = "ledger"
    => /\ calc.file.stats = updateStats(calc.file.trades)
       /\ calc.op # "recordSell:closed" => calc.file.trades = trades

\* the write inside recordSell: the file shows the SELL that does not name its
\* BUY yet, with the BUY closed and counted as closed
C25_Witness ==
    /\ calc.fn = "ledger" /\ calc.op = "recordSell:closed" /\ calc.found # 0
    /\ calc.file.trades = trades
    /\ trades[Len(trades)].type = "SELL" /\ trades[Len(trades)].relatedBuyTradeId = 0
    /\ calc.file.stats.closedPositions = 1
    /\ calc.file.stats.totalSells = 1

\* a realized PnL that is greater than 0, whatever its format
PnlPositive(str) == str # <<>> /\ (str[1] > 0 \/ (Len(str) = 2 /\ str[1] >= 0))

\* C26: the win rate of getStats() is the number of CLOSED BUYs with a realized
\* PnL > 0 over the number of CLOSED BUYs (as a percentage with two decimals),
\* and 0 when no BUY is CLOSED
C26_WinRate ==
    calc.fn = "ledger"
    => LET closed == Cardinality(closedPositions(trades))
           wins == Cardinality({i \in closedPositions(trades) :
                                   PnlPositive(trades[i].realizedPnL)})
           rate == getStats(trades).winRate
       IN IF closed = 0 THEN rate = 0
          ELSE /\ 2 * closed * rate - closed <= 20000 * wins
               /\ 20000 * wins < 2 * closed * rate + closed

(* ------------------------------ shutdown ------------------------------- *)
\* the SIGINT handler runs: saveState(), clearInterval, process.exit
SigintExit ==
    /\ restarts' = restarts + 1
    /\ timerOn
    /\ stateFile' = saveState(lastSeenPositions, ourPositions)

\* C27: on the shutdown signal the state is saved, no pass is scheduled any more,
\* and the process does not exit while a leg awaits the confirmation of the
\* transaction it has submitted
C27_ShutdownWaitsForLegs ==
    [][SigintExit
       => /\ ~timerOn'
          /\ stateFile'.lastSeenPositions = lastSeenPositions
          /\ stateFile'.ourPositions = ourPositions
          /\ \A p \in Slots : pc[p] \notin SubmittedPcs]_vars

(* ------------------- the simulator's sell, the buy --------------------- *)
\* C28: the sell of a position of a resolved market credits the investment less
\* the fee, taken once, when the position's outcome won, and nothing otherwise
C28_FeeOnce ==
    calc.fn = "sell" /\ calc.done
    => calc.credit = IF calc.winningOutcome = calc.outcome
                     THEN (calc.invested * (BPS - calc.fee)) * BPS
                     ELSE 0

\* C29: the buy is submitted with the guard expected - floor(expected *
\* SLIPPAGE_BPS / 10000), which lies between 0 and expected, and the gas estimate
\* was made with the same guard
C29_GuardOfBuy ==
    calc.fn = "buy" /\ calc.submitted
    => /\ calc.buyArg = calc.expected - ((calc.expected * calc.slippage) \div BPS)
       /\ calc.buyArg \in 0..calc.expected
       /\ calc.estArg = calc.buyArg

\* a buy submitted with a guard strictly between 0 and the expected quantity,
\* where the division rounds
C29_Witness ==
    /\ calc.fn = "buy" /\ calc.submitted
    /\ calc.buyArg > 0 /\ calc.buyArg < calc.expected
    /\ (calc.expected * calc.slippage) % BPS # 0

\* C30: no buy is submitted when the suggested fee per gas times the gas limit
\* exceeds MAX_GAS_WEI
C30_AbortAboveBudget ==
    (/\ calc.fn = "buy" /\ calc.step \in {"sent", "returned"}
     /\ calc.gasEst > 0
     /\ calc.suggested * padded(calc.gasEst) > calc.budget)
    => ~calc.submitted

(* ------------------------- fee caps, approvals -------------------------- *)
\* C31: every transaction submitted with a positive gas limit has maxFeePerGas
\* times the gas limit at most MAX_GAS_WEI and a priority fee at most
\* maxFeePerGas, whatever fees the provider suggests
C31_FeeWithinBudget ==
    calc.fn = "overrides" /\ calc.built /\ calc.ov.gasLimit > 0
    => /\ calc.ov.maxFeePerGas * calc.ov.gasLimit <= calc.budget
       /\ calc.ov.maxPriorityFeePerGas <= calc.ov.maxFeePerGas

\* overrides whose fee and priority fee were both lowered, to a cap that is
\* not zero and where the division rounds
C31_Witness ==
    /\ calc.fn = "overrides" /\ calc.built /\ calc.ov.gasLimit > 0
    /\ calc.ov.maxFeePerGas > 0
    /\ calc.suggested > calc.ov.maxFeePerGas
    /\ calc.priority > calc.ov.maxPriorityFeePerGas
    /\ calc.budget % calc.ov.gasLimit # 0

\* C32: a buy is submitted only after the collateral balance was read at least the
\* investment and ensureUsdcApproval returned true, which it does only when the
\* allowance read last is at least the investment; when an approve, its gas
\* estimate or the read after the approval fails, no buy is submitted
C32_BuyNeedsApproval ==
    calc.fn = "approval"
    => /\ calc.sent.buy > 0
          => /\ calc.usdcBal >= calc.needed
             /\ calc.approvalOk = "true"
             /\ calc.lastRead >= calc.needed
       /\ calc.approvalOk = "true" => calc.lastRead >= calc.needed
       /\ calc.failure # "none" => calc.sent.buy = 0 /\ calc.step = "returned"

\* a buy submitted after approve(0), approve(needed) and a read of the new
\* allowance
C32_Witness ==
    /\ calc.fn = "approval" /\ calc.sent.buy = 1
    /\ calc.sent.approve0 = 1 /\ calc.sent.approve = 1
    /\ calc.call = "after"

\* C33: a call of readAllowance reads at most three times, returns the first
\* answer without reading again, waits between two attempts and nowhere else,
\* throws the third error when all three reads fail; no transaction is
\* submitted twice in a leg
C33_ReadRetriesBounded ==
    calc.fn = "approval"
    => /\ calc.reads <= 3
       /\ calc.ret = "value" => calc.reads = calc.fails + 1
       /\ calc.ret = "error"
          => calc.reads = 3 /\ calc.fails = 3 /\ calc.thrown = calc.errs[3]
       /\ calc.ret = "none" /\ calc.step = "read" => calc.waits = calc.fails
       /\ calc.ret # "none" => calc.waits = IF calc.fails < 2 THEN calc.fails ELSE 2
       /\ \A k \in DOMAIN calc.sent : calc.sent[k] <= 1

\* the read after a confirmed approve fails three times: two waits, the third
\* error is thrown, the approve is not submitted again
C33_Witness ==
    /\ calc.fn = "approval" /\ calc.call = "after"
    /\ calc.ret = "error" /\ calc.waits = 2
    /\ calc.errs[1] # calc.errs[3]
    /\ calc.sent.approve = 1

(* ------------------------- the increase event -------------------------- *)
\* C34: for the outcome seen last, INCREASED is emitted exactly when the current
\* balance times 10 exceeds the last balance times 11 and the last balance is
\* positive; never when the last balance is 0 or the balance went down
C34_IncreasedAboveTenPercent ==
    calc.fn = "increase" /\ calc.done
    => (calc.logged <=> /\ calc.lastBalance > 0
                        /\ calc.targetBalance * 10 > calc.lastBalance * 11)

(* -------------------- LocalPositions and the ledger -------------------- *)
\* the OPEN BUY entries of market m
OpenBuysOf(trs, m) ==
    {i \in 1..Len(trs) :
        trs[i].type = "BUY" /\ trs[i].status = "OPEN" /\ trs[i].marketSlug = m}

\* the markets with a LocalPosition are the markets with an OPEN BUY, and each
\* LocalPosition names that BUY
PositionsAreOpenBuys(op, trs) ==
    \A m \in Markets :
        /\ op[m] # NoPosition <=> OpenBuysOf(trs, m) # {}
        /\ op[m] # NoPosition => \A i \in OpenBuysOf(trs, m) : trs[i].id = op[m].tradeId

\* C35: after every completed leg the markets of the LocalPosition map are the
\* markets with an OPEN BUY in the ledger and each tradeId is the id of that BUY:
\* no leg removes a LocalPosition and leaves its BUY OPEN, none leaves a
\* LocalPosition whose BUY is CLOSED
C35_PositionsFollowLedger ==
    [][(/\ restarts' = restarts
        /\ PositionsAreOpenBuys(ourPositions, trades)
        /\ \A p \in Slots : pc'[p] \notin LegPcs)
       => PositionsAreOpenBuys(ourPositions', trades')]_vars

\* C36: every SELL the orchestrator records has returnAmount = invested -
\* floor(invested / 100) and pnlAmount = returnAmount - invested, which is not
\* positive, whatever the sale paid; no CLOSED BUY has a realizedPnL above zero
C36_LiveSellNeverGains ==
    \A i \in 1..Len(trades) :
        /\ trades[i].type = "SELL"
           => /\ trades[i].returnAmount
                    = trades[i].investmentAmount - (trades[i].investmentAmount \div 100)
              /\ trades[i].pnlAmount
                    = <<trades[i].returnAmount - trades[i].investmentAmount>>
              /\ trades[i].pnlAmount[1] <= 0
        /\ (trades[i].type = "BUY" /\ trades[i].status = "CLOSED")
           => Len(trades[i].realizedPnL) = 1 /\ trades[i].realizedPnL[1] <= 0

\* a sale that paid twice the investment, recorded with a loss; the division of
\* the investment by 100 rounds
C36_Witness ==
    /\ calc.fn = "liveSell" /\ calc.step = "sold"
    /\ calc.paid > calc.amount /\ calc.amount % 100 # 0
    /\ trades[1].status = "CLOSED" /\ trades[1].realizedPnL[1] < 0
    /\ trades[2].type = "SELL" /\ trades[2].relatedBuyTradeId = trades[1].id

(* ---------------------------- the simulator ---------------------------- *)
\* C37: at every point of a simulator run, also of a run started on the ledger
\* file of an earlier run, the markets of the positions map are the markets with
\* an OPEN BUY in the simulation ledger, and a simulated SELL closes the BUY that
\* was recorded for the position it sells
C37_SimPositionsFollowLedger ==
    calc.fn = "sim" /\ calc.pending = NoPending
    => /\ \A m \in Markets :
             calc.positions[m] # NoSimPosition <=> OpenBuysOf(trades, m) # {}
       /\ calc.sold # 0 => trades[calc.sold].status = "CLOSED"

\* C38: the balance of the simulator is never negative: simulateBuy deducts the
\* investment only from a balance that covers it and otherwise changes nothing,
\* simulateSell never lowers the balance
C38_BalanceNeverNegative ==
    [][(calc.fn = "sim" /\ calc'.fn = "sim" /\ calc'.runs = calc.runs)
       => /\ calc.balance >= 0 /\ calc'.balance >= 0
          /\ calc'.last = "refused"
             => /\ calc'.balance = calc.balance /\ trades' = trades
                /\ calc'.positions = calc.positions
          /\ calc'.last = "bought"
             => LET paid == trades'[Len(trades')].investmentAmount
                                * (SimUnit \div COLLATERAL_UNIT)
                IN /\ Len(trades') = Len(trades) + 1
                   /\ calc.balance >= paid
                   /\ calc'.balance = calc.balance - paid
          /\ calc'.last = "sold" => calc'.balance >= calc.balance]_vars

\* a buy is refused for lack of balance after a sell has credited its return: the
\* balance is positive and below the starting balance
C38_Witness ==
    /\ calc.fn = "sim" /\ calc.last = "refused"
    /\ calc.sold # 0 /\ calc.balance > 0
    /\ calc.balance < calc.start * SimUnit

====
